---------------------------- MODULE Spec2Model ----------------------------
(***************************************************************************)
(* Model of the concurrency layer of keep94/gofunctional:                  *)
(*   - functional/generators.go: NewGenerator / regularGenerator / Emitter *)
(*   - functional/consumers.go : MultiConsume / splitStream                *)
(* Go channels are unbuffered: a send and the matching receive complete    *)
(* together, so every channel operation is one joint (rendezvous) action   *)
(* of the two goroutines involved.                                         *)
(***************************************************************************)
EXTENDS Integers, Sequences, FiniteSets, TLC

(* ----------------------------- bounds ---------------------------------- *)
\* number of Next/Close calls the Generator's caller makes
MaxCalls == 3
\* number of distinct destinations the Generator's caller owns
NumPtrs == 2
\* values a producer may store are 1..MaxVal
MaxVal == 2

\* largest number of consumers handed to MultiConsume
MaxConsumers == 3
\* largest length of the upstream Stream
MaxUp == 3
\* largest number of Next calls one consumer routine makes
MaxReads == 3

\* largest number of Queue.Add calls
MaxAdds == 2
\* number of clients holding a position in the Queue
NumClients == 2
\* largest number of traversals (toSlice calls) one client completes
MaxRuns == 1

\* largest start and end index given to Slice
MaxIndex == 3
\* largest number of Next calls made on a Slice or Join stream
MaxNexts == 4
\* largest number of input streams given to Join
MaxStreams == 3
\* keys of the elements GroupBy's upstream emits are 1..MaxKey
MaxKey == 2
\* largest number of calls made on the GroupBy stream and its Groups
MaxOps == 6

\* the nil interface value (generators.go:58, consumers.go:70)
Nil == 0
Ptrs == 1..NumPtrs
Values == 1..MaxVal

(* --------------------- Generator: state -------------------------------- *)
VARIABLES
  gPtrCh,       \* regularGenerator.ptrCh : "chan" or "nil"
  gDoneCh,      \* regularGenerator.doneCh: "chan" or "nil"
  ptrChCloses,  \* number of close() calls made on the ptrCh channel
  doneChCloses, \* number of close() calls made on the doneCh channel
  callerPc,     \* "recv" (in cleanupIfDone:68), "send" (in Next:53), "idle", "panic"
  callerOp,     \* call in progress / last call: "New", "Next", "Close"
  callerArg,    \* ptr argument of the call in progress (Nil for Close)
  prodPc,       \* "user", "emit_send" (63), "emit_recv" (64), "done_send" (85), "exited"
  slot,         \* result of the producer's latest EmitPtr call
  filled,       \* f has stored a value in the slot it holds
  mem,          \* contents of the caller's destinations
  obeysNil,     \* f returns when EmitPtr hands it nil
  ret,          \* result of the caller's last call: "none","g","true","false","nil"
  calls,        \* number of Next/Close calls made
  chOps,        \* number of channel operations completed or begun by the caller
  handed,       \* arguments the caller sent on ptrCh, in order
  received,     \* results of the producer's EmitPtr calls, in order
  yielded,      \* destination contents seen by each Next that returned true
  committed,    \* contents of each non-nil slot when f called EmitPtr again
  stored,       \* values f left in non-nil slots it filled (EmitPtr again or return)
  allFilled,    \* f filled every non-nil slot it was handed before giving it up
  falseSeen,    \* some Next call has returned false
  finished      \* f has returned

genVars == <<gPtrCh, gDoneCh, ptrChCloses, doneChCloses, callerPc, callerOp,
             callerArg, prodPc, slot, filled, mem, obeysNil, ret, calls, chOps,
             handed, received, yielded, committed, stored, allFilled,
             falseSeen, finished>>

(* --------------------- MultiConsume: state ----------------------------- *)
VARIABLES
  n,              \* len(consumers)
  upLen,          \* number of elements the upstream Stream s holds
  upPos,          \* number of elements pulled from s so far
  slotVal,        \* *ptr, the value shared by all rounds
  coPc,           \* coordinator: "setup","recv","test","round","send","drain_test","drain","done"
  coPhase,        \* loop the coordinator is in: "setup", "round", "drain"
  coI,            \* index i of the loop over streams (1-based)
  coVal,          \* returnValue being sent by nextReturn
  stillConsuming, \* the local variable of MultiConsume
  sPtrCh,         \* splitStream.ptrCh per stream: "unmade", "chan", "nil"
  sNextReturnCh,  \* splitStream.nextReturnCh per stream
  sCloses,        \* number of close() calls on each stream's channel pair
  sPtr,           \* splitStream.ptr per stream: Nil or a consumer's destination
  consPc,         \* consumer task: "unstarted","user","send" (80),"wait" (81),"got","sentinel" (70),"done"
  dest,           \* each consumer's private destination
  got,            \* destination contents after each read that returned true
  reads,          \* number of Next calls each consumer has issued
  falses,         \* number of reads of each consumer that returned false
  consumeCalls,   \* number of times each consumer's Consume was invoked
  nextCalls,      \* number of calls of s.Next made by MultiConsume
  pulled,         \* the elements s.Next delivered, in order
  copies          \* number of copier calls made for each stream

mcVars == <<n, upLen, upPos, slotVal, coPc, coPhase, coI, coVal,
            stillConsuming, sPtrCh, sNextReturnCh, sCloses, sPtr, consPc,
            dest, got, reads, falses, consumeCalls, nextCalls, pulled, copies>>

(* --------------------- odqueue: state ---------------------------------- *)
VARIABLES
  qNext,    \* Element.next of every allocated element (elements are 1, 2, ...)
  qValue,   \* Element.Value of every allocated element (Nil: never set)
  qEnd,     \* Queue.e
  qAlloc,   \* number of elements newElement has allocated
  qAdded,   \* the arguments of the Add calls made, in order
  cur,      \* each client's *Element (Nil: no position captured yet)
  base,     \* number of Add calls made when the client's traversal began
  result,   \* the slice the client's toSlice call has built so far
  runs      \* number of toSlice calls each client has completed

qVars == <<qNext, qValue, qEnd, qAlloc, qAdded, cur, base, result, runs>>

(* --------------------- StreamToGenerator: state ------------------------ *)
VARIABLES
  sgStream,  \* the Stream s given to StreamToGenerator: "g" (the Generator)
  sgCloser,  \* the io.Closer c given: "g" or "c" (another io.Closer)
  cCloses    \* number of Close calls made on the other io.Closer c

sgVars == <<sgStream, sgCloser, cCloses>>

(* --------------------- Slice: state ------------------------------------ *)
VARIABLES
  slStart,  \* sliceStream.start
  slEnd,    \* sliceStream.end (negative: to the end of the stream)
  slIndex,  \* sliceStream.index
  slLen,    \* number of elements the underlying Stream holds
  slPos,    \* number of elements pulled from the underlying Stream
  slCalls,  \* number of Next calls made on the underlying Stream
  slDst,    \* the value at the caller's ptr
  slOut,    \* the values at ptr after each Next that returned true
  slRet,    \* result of the last Next call: "none", "true", "false"
  slNexts   \* number of Next calls made on the sliceStream

slVars == <<slStart, slEnd, slIndex, slLen, slPos, slCalls, slDst, slOut,
            slRet, slNexts>>

(* --------------------- Join: state ------------------------------------- *)
VARIABLES
  jN,      \* len(joinStream.streams) at construction
  jNil,    \* joinStream.streams == nil
  jLen,    \* number of elements each input Stream holds
  jPos,    \* number of elements pulled from each input Stream
  jCalls,  \* number of Next calls made on each input Stream
  jDst,    \* the values at the caller's Tuple pointers
  jOut,    \* the Tuple after each Next that returned true
  jRet,    \* result of the last Next call: "none", "true", "false"
  jNexts   \* number of Next calls made on the joinStream

jVars == <<jN, jNil, jLen, jPos, jCalls, jDst, jOut, jRet, jNexts>>

(* --------------------- GroupBy: state ---------------------------------- *)
VARIABLES
  gbUp,        \* keys of the elements the underlying Stream holds, in order
  gbPos,       \* number of elements pulled from the underlying Stream
  gbKey,       \* Group.key
  gbPtr,       \* the value at Group.ptr (Nil: nothing stored yet)
  gbKeySet,    \* Group.keySet
  gbPtrSaved,  \* Group.ptrSaved
  gbHalted,    \* Group.halted
  gbDst,       \* the value at the caller's ptr
  gbKeys,      \* Key() of each Group the GroupBy stream emitted
  gbElems,     \* the values each emitted Group emitted
  gbRet,       \* result of the last Next on the GroupBy stream
  grRet,       \* result of the last Next on the current Group
  gbOps        \* number of calls the caller has made

gbVars == <<gbUp, gbPos, gbKey, gbPtr, gbKeySet, gbPtrSaved, gbHalted, gbDst,
            gbKeys, gbElems, gbRet, grRet, gbOps>>

vars == <<genVars, mcVars, qVars, sgVars, slVars, jVars, gbVars>>

\* everything outside the Generator, MultiConsume, the Queue, ...
nonGenVars == <<mcVars, qVars, sgVars, slVars, jVars, gbVars>>
nonMcVars == <<genVars, qVars, sgVars, slVars, jVars, gbVars>>
nonQVars == <<genVars, mcVars, sgVars, slVars, jVars, gbVars>>
nonSgVars == <<mcVars, qVars, slVars, jVars, gbVars>>
nonSlVars == <<genVars, mcVars, qVars, sgVars, jVars, gbVars>>
nonJVars == <<genVars, mcVars, qVars, sgVars, slVars, gbVars>>
nonGbVars == <<genVars, mcVars, qVars, sgVars, slVars, jVars>>

Consumers == 1..MaxConsumers

\* State of MultiConsume's variables at its entry, for n consumers and an
\* upstream of len elements (lines 25-29: nothing is made yet).
McEntry(num, len) ==
  /\ n = num /\ upLen = len /\ upPos = 0 /\ slotVal = 0
  /\ coPc = "setup" /\ coPhase = "setup" /\ coI = 1 /\ coVal = FALSE
  /\ stillConsuming = FALSE
  /\ sPtrCh = [i \in Consumers |-> "unmade"]
  /\ sNextReturnCh = [i \in Consumers |-> "unmade"]
  /\ sCloses = [i \in Consumers |-> 0]
  /\ sPtr = [i \in Consumers |-> Nil]
  /\ consPc = [i \in Consumers |-> "unstarted"]
  /\ dest = [i \in Consumers |-> 0]
  /\ got = [i \in Consumers |-> <<>>]
  /\ reads = [i \in Consumers |-> 0]
  /\ falses = [i \in Consumers |-> 0]
  /\ consumeCalls = [i \in Consumers |-> 0]
  /\ nextCalls = 0 /\ pulled = <<>>
  /\ copies = [i \in Consumers |-> 0]

\* State of the Generator's variables when no Generator is under study.
GenIdle ==
  /\ gPtrCh = "nil" /\ gDoneCh = "nil"
  /\ ptrChCloses = 0 /\ doneChCloses = 0
  /\ callerPc = "idle" /\ callerOp = "New" /\ callerArg = Nil
  /\ prodPc = "exited" /\ slot = Nil /\ filled = FALSE
  /\ mem = [p \in Ptrs |-> 0]
  /\ obeysNil = TRUE
  /\ ret = "none" /\ calls = 0 /\ chOps = 0
  /\ handed = <<>> /\ received = <<>>
  /\ yielded = <<>> /\ committed = <<>> /\ stored = <<>>
  /\ allFilled = TRUE /\ falseSeen = FALSE /\ finished = FALSE

Clients == 1..NumClients
Elements == 1..(MaxAdds + 1)

\* State of the Queue's variables when no Queue is under study.
QueueIdle ==
  /\ qNext = [e \in Elements |-> Nil] /\ qValue = [e \in Elements |-> Nil]
  /\ qEnd = Nil /\ qAlloc = 0 /\ qAdded = <<>>
  /\ cur = [c \in Clients |-> Nil]
  /\ base = [c \in Clients |-> 0]
  /\ result = [c \in Clients |-> <<>>]
  /\ runs = [c \in Clients |-> 0]

Streams == 1..MaxStreams

\* State of the wrapper's variables when no simpleGenerator is under study.
WrapperIdle == sgStream = "none" /\ sgCloser = "none" /\ cCloses = 0

\* State of Slice's variables when no sliceStream is under study.
SliceIdle ==
  /\ slStart = 0 /\ slEnd = 0 /\ slIndex = 0 /\ slLen = 0 /\ slPos = 0
  /\ slCalls = 0 /\ slDst = Nil /\ slOut = <<>> /\ slRet = "none"
  /\ slNexts = 0

\* State of Join's variables when no joinStream is under study.
JoinIdle ==
  /\ jN = 0 /\ jNil = TRUE
  /\ jLen = [i \in Streams |-> 0] /\ jPos = [i \in Streams |-> 0]
  /\ jCalls = [i \in Streams |-> 0] /\ jDst = [i \in Streams |-> Nil]
  /\ jOut = <<>> /\ jRet = "none" /\ jNexts = 0

\* State of GroupBy's variables when no Group is under study.
GroupIdle ==
  /\ gbUp = <<>> /\ gbPos = 0 /\ gbKey = Nil /\ gbPtr = Nil
  /\ gbKeySet = FALSE /\ gbPtrSaved = FALSE /\ gbHalted = FALSE
  /\ gbDst = Nil /\ gbKeys = <<>> /\ gbElems = <<>>
  /\ gbRet = "none" /\ grRet = "none" /\ gbOps = 0

\* the stream combinators are idle
StreamsIdle == SliceIdle /\ JoinIdle /\ GroupIdle

NewGeneratorPc_NoWait == "idle"

\* NewGenerator, line 34: after `go genFuncWrapper(f, g)` the caller runs
\* g.cleanupIfDone(), whose first statement is the receive of line 68.
NewGeneratorPc == "recv"

(* NewGenerator, lines 32-33: the channels are made, the producer          *)
(* goroutine is started, the caller is about to run cleanupIfDone.         *)
GenNew ==
  /\ gPtrCh = "chan" /\ gDoneCh = "chan"
  /\ ptrChCloses = 0 /\ doneChCloses = 0
  /\ callerPc = NewGeneratorPc /\ callerOp = "New" /\ callerArg = Nil
  /\ prodPc = "user" /\ slot = Nil /\ filled = FALSE
  /\ mem = [p \in Ptrs |-> 0]
  /\ obeysNil \in BOOLEAN
  /\ ret = "none" /\ calls = 0 /\ chOps = 0
  /\ handed = <<>> /\ received = <<>>
  /\ yielded = <<>> /\ committed = <<>> /\ stored = <<>>
  /\ allFilled = TRUE /\ falseSeen = FALSE /\ finished = FALSE

\* A Generator under study, everything else idle.
InitGen ==
  /\ GenNew
  /\ McEntry(0, 0) /\ QueueIdle /\ WrapperIdle /\ StreamsIdle

(* --------------------- Generator: caller side -------------------------- *)

\* The return of the call in progress; b is cleanupIfDone's / Next's result.
\* NewGenerator returns g, Close discards Next's result and returns nil.
CallerReturn(b) ==
  /\ callerPc' = "idle"
  /\ ret' = IF callerOp = "New" THEN "g"
            ELSE IF callerOp = "Close" THEN "nil"
            ELSE IF b THEN "true" ELSE "false"
  /\ yielded' = IF callerOp = "Next" /\ b /\ callerArg \in Ptrs
                THEN Append(yielded, mem[callerArg]) ELSE yielded
  /\ falseSeen' = (falseSeen \/ (callerOp = "Next" /\ ~b))

cleanupIfDone_ReturnsTrue(done) ==
  /\ IF done
     THEN /\ gPtrCh' = "nil" /\ gDoneCh' = "nil"
          /\ ptrChCloses' = ptrChCloses + 1
          /\ doneChCloses' = doneChCloses + 1
     ELSE UNCHANGED <<gPtrCh, gDoneCh, ptrChCloses, doneChCloses>>
  /\ CallerReturn(TRUE)

cleanupIfDone_KeepsChannels(done) ==
  /\ IF done
     THEN /\ UNCHANGED <<gPtrCh, gDoneCh>>
          /\ ptrChCloses' = ptrChCloses + 1
          /\ doneChCloses' = doneChCloses + 1
     ELSE UNCHANGED <<gPtrCh, gDoneCh, ptrChCloses, doneChCloses>>
  /\ CallerReturn(~done)

cleanupIfDone_OnlyPtrCh(done) ==
  /\ IF done
     THEN /\ gPtrCh' = "nil" /\ UNCHANGED gDoneCh
          /\ ptrChCloses' = ptrChCloses + 1
          /\ doneChCloses' = doneChCloses + 1
     ELSE UNCHANGED <<gPtrCh, gDoneCh, ptrChCloses, doneChCloses>>
  /\ CallerReturn(~done)

\* regularGenerator.cleanupIfDone after its receive of `done` from doneCh.
cleanupIfDone(done) ==
  /\ IF done
     THEN /\ gPtrCh' = "nil" /\ gDoneCh' = "nil"
          /\ ptrChCloses' = ptrChCloses + 1
          /\ doneChCloses' = doneChCloses + 1
     ELSE UNCHANGED <<gPtrCh, gDoneCh, ptrChCloses, doneChCloses>>
  /\ CallerReturn(~done)

NextFindsClosed_Never == FALSE

\* regularGenerator.Next, line 50: `g.ptrCh == nil`.
NextFindsClosed == gPtrCh = "nil"

\* regularGenerator.Next up to its send: the nil check (return false), else
\* `g.ptrCh <- ptr` begins; a send on a closed channel panics.
NextCall(op, ptr) ==
  /\ UNCHANGED nonGenVars
  /\ callerPc = "idle" /\ calls < MaxCalls
  /\ calls' = calls + 1
  /\ callerOp' = op /\ callerArg' = ptr
  /\ IF NextFindsClosed
     THEN /\ callerPc' = "idle"
          /\ ret' = IF op = "Close" THEN "nil" ELSE "false"
          /\ falseSeen' = (falseSeen \/ op = "Next")
          /\ UNCHANGED <<yielded, chOps>>
     ELSE /\ callerPc' = IF ptrChCloses > 0 THEN "panic" ELSE "send"
          /\ chOps' = chOps + 1
          /\ UNCHANGED <<ret, yielded, falseSeen>>
  /\ UNCHANGED <<gPtrCh, gDoneCh, ptrChCloses, doneChCloses, prodPc, slot,
                 filled, mem, obeysNil, handed, received, committed, stored,
                 allFilled, finished>>

\* Generator.Next(ptr) called with one of the caller's destinations.
Next(ptr) == NextCall("Next", ptr)

CloseArg_NotNil == Nil + 1

\* regularGenerator.Close, line 58: the argument of its Next call.
CloseArg == Nil

\* regularGenerator.Close: g.Next(nil), result discarded, returns nil.
Close == NextCall("Close", CloseArg)

(* --------------------- Generator: producer side ------------------------ *)

\* f stores value v through the pointer EmitPtr returned.
ProducerWrite(v) ==
  /\ UNCHANGED nonGenVars
  /\ prodPc = "user" /\ slot \in Ptrs /\ ~filled
  /\ mem' = [mem EXCEPT ![slot] = v]
  /\ filled' = TRUE
  /\ UNCHANGED <<gPtrCh, gDoneCh, ptrChCloses, doneChCloses, callerPc,
                 callerOp, callerArg, prodPc, slot, obeysNil, ret, calls,
                 chOps, handed, received, yielded, committed, stored,
                 allFilled, falseSeen, finished>>

\* f may go on after EmitPtr returned nil only if it ignores the contract.
MayContinue == ~(obeysNil /\ received # <<>> /\ slot = Nil)

\* f calls EmitPtr: line 63, `g.doneCh <- false` begins.
EmitPtrCall ==
  /\ UNCHANGED nonGenVars
  /\ prodPc = "user" /\ MayContinue
  /\ prodPc' = "emit_send"
  /\ committed' = IF slot \in Ptrs THEN Append(committed, mem[slot]) ELSE committed
  /\ stored' = IF slot \in Ptrs /\ filled THEN Append(stored, mem[slot]) ELSE stored
  /\ allFilled' = (allFilled /\ (slot \in Ptrs => filled))
  /\ UNCHANGED <<gPtrCh, gDoneCh, ptrChCloses, doneChCloses, callerPc,
                 callerOp, callerArg, slot, filled, mem, obeysNil, ret, calls,
                 chOps, handed, received, yielded, falseSeen, finished>>

\* f returns: genFuncWrapper line 85, `g.doneCh <- true` begins.
ProducerReturn ==
  /\ UNCHANGED nonGenVars
  /\ prodPc = "user"
  /\ prodPc' = "done_send"
  /\ finished' = TRUE
  /\ stored' = IF slot \in Ptrs /\ filled THEN Append(stored, mem[slot]) ELSE stored
  /\ allFilled' = (allFilled /\ (slot \in Ptrs => filled))
  /\ UNCHANGED <<gPtrCh, gDoneCh, ptrChCloses, doneChCloses, callerPc,
                 callerOp, callerArg, slot, filled, mem, obeysNil, ret, calls,
                 chOps, handed, received, yielded, committed, falseSeen>>

(* --------------------- Generator: rendezvous --------------------------- *)

EmitPtrAnnounce_NoRecv ==
  /\ UNCHANGED nonGenVars
  /\ prodPc = "emit_send" /\ callerPc = "recv"
  /\ prodPc' = "user"
  /\ received' = Append(received, slot)
  /\ chOps' = chOps + 1
  /\ cleanupIfDone(FALSE)
  /\ UNCHANGED <<callerOp, callerArg, slot, filled, mem, obeysNil, calls,
                 handed, committed, stored, allFilled, finished>>

\* doneCh rendezvous, EmitPtr line 63 with cleanupIfDone line 68: the
\* producer announces "not finished" and goes on to wait for a slot.
EmitPtrAnnounce ==
  /\ UNCHANGED nonGenVars
  /\ prodPc = "emit_send" /\ callerPc = "recv"
  /\ prodPc' = "emit_recv"
  /\ chOps' = chOps + 1
  /\ cleanupIfDone(FALSE)
  /\ UNCHANGED <<callerOp, callerArg, slot, filled, mem, obeysNil, calls,
                 handed, received, committed, stored, allFilled, finished>>

\* doneCh rendezvous, genFuncWrapper line 85 with cleanupIfDone line 68:
\* the producer announces "finished" and its goroutine ends.
WrapperAnnounce ==
  /\ UNCHANGED nonGenVars
  /\ prodPc = "done_send" /\ callerPc = "recv"
  /\ prodPc' = "exited"
  /\ chOps' = chOps + 1
  /\ cleanupIfDone(TRUE)
  /\ UNCHANGED <<callerOp, callerArg, slot, filled, mem, obeysNil, calls,
                 handed, received, committed, stored, allFilled, finished>>

HandSlot_NoWait ==
  /\ UNCHANGED nonGenVars
  /\ callerPc = "send" /\ prodPc = "emit_recv"
  /\ prodPc' = "user"
  /\ slot' = callerArg
  /\ filled' = FALSE
  /\ handed' = Append(handed, callerArg)
  /\ received' = Append(received, callerArg)
  /\ CallerReturn(TRUE)
  /\ UNCHANGED <<gPtrCh, gDoneCh, ptrChCloses, doneChCloses, callerOp,
                 callerArg, mem, obeysNil, calls, chOps,
                 committed, stored, allFilled, finished>>

HandSlot_CloseNoWait ==
  /\ UNCHANGED nonGenVars
  /\ callerPc = "send" /\ prodPc = "emit_recv"
  /\ prodPc' = "user"
  /\ slot' = callerArg
  /\ filled' = FALSE
  /\ handed' = Append(handed, callerArg)
  /\ received' = Append(received, callerArg)
  /\ IF callerOp = "Close"
     THEN CallerReturn(TRUE)
     ELSE callerPc' = "recv" /\ UNCHANGED <<ret, yielded, falseSeen>>
  /\ UNCHANGED <<gPtrCh, gDoneCh, ptrChCloses, doneChCloses, callerOp,
                 callerArg, mem, obeysNil, calls, chOps,
                 committed, stored, allFilled, finished>>

\* ptrCh rendezvous, Next line 53 with EmitPtr line 64: EmitPtr returns the
\* caller's argument; the caller goes on to cleanupIfDone.
HandSlot ==
  /\ UNCHANGED nonGenVars
  /\ callerPc = "send" /\ prodPc = "emit_recv"
  /\ callerPc' = "recv"
  /\ prodPc' = "user"
  /\ slot' = callerArg
  /\ filled' = FALSE
  /\ handed' = Append(handed, callerArg)
  /\ received' = Append(received, callerArg)
  /\ UNCHANGED <<gPtrCh, gDoneCh, ptrChCloses, doneChCloses, callerOp,
                 callerArg, mem, obeysNil, ret, calls, chOps, yielded,
                 committed, stored, allFilled, falseSeen, finished>>

NextGen ==
  \/ \E p \in Ptrs : Next(p)
  \/ Close
  \/ \E v \in Values : ProducerWrite(v)
  \/ EmitPtrCall
  \/ ProducerReturn
  \/ EmitPtrAnnounce
  \/ WrapperAnnounce
  \/ HandSlot

SpecGen == InitGen /\ [][NextGen]_vars

\* The Go scheduler runs every runnable goroutine: a channel operation both
\* of whose parties are ready completes, and the producer function, which
\* is taken to go on to its next EmitPtr call or to its return, does so.
\* The caller is under no obligation to make another call.
FairSpecGen ==
  /\ SpecGen
  /\ WF_vars(EmitPtrCall \/ ProducerReturn)
  /\ WF_vars(EmitPtrAnnounce)
  /\ WF_vars(WrapperAnnounce)
  /\ WF_vars(HandSlot)

(* --------------------- MultiConsume: upstream and copier --------------- *)

\* The k-th element (k = 1, 2, ...) of the upstream Stream: Count() emits
\* 0, 1, 2, ...; the tests cut it to a finite Stream with Slice.
Elem(k) == k - 1

assignCopier_Stale(src, old) == old

\* assignCopier: the value stored at dest after copier(src, dest).
assignCopier(src, old) == src

(* --------------------- MultiConsume: consumer tasks -------------------- *)

\* The consumer routine calls splitStream.Next(&x): line 80,
\* `s.ptrCh <- ptr` begins.
ConsumerNext(i) ==
  /\ UNCHANGED nonMcVars
  /\ i \in 1..n /\ consPc[i] = "user" /\ reads[i] < MaxReads
  /\ consPc' = [consPc EXCEPT ![i] = "send"]
  /\ reads' = [reads EXCEPT ![i] = @ + 1]
  /\ UNCHANGED <<n, upLen, upPos, slotVal, coPc, coPhase, coI, coVal,
                 stillConsuming, sPtrCh, sNextReturnCh, sCloses, sPtr, dest,
                 got, falses, consumeCalls, nextCalls, pulled, copies>>

\* After Next returned true the consumer routine reads its destination.
ConsumerTake(i) ==
  /\ UNCHANGED nonMcVars
  /\ i \in 1..n /\ consPc[i] = "got"
  /\ got' = [got EXCEPT ![i] = Append(@, dest[i])]
  /\ consPc' = [consPc EXCEPT ![i] = "user"]
  /\ UNCHANGED <<n, upLen, upPos, slotVal, coPc, coPhase, coI, coVal,
                 stillConsuming, sPtrCh, sNextReturnCh, sCloses, sPtr, dest,
                 reads, falses, consumeCalls, nextCalls, pulled, copies>>

\* Consume returns: consumerWrapper line 70, `s.ptrCh <- nil` begins.
ConsumerReturn(i) ==
  /\ UNCHANGED nonMcVars
  /\ i \in 1..n /\ consPc[i] = "user"
  /\ consPc' = [consPc EXCEPT ![i] = "sentinel"]
  /\ UNCHANGED <<n, upLen, upPos, slotVal, coPc, coPhase, coI, coVal,
                 stillConsuming, sPtrCh, sNextReturnCh, sCloses, sPtr, dest,
                 got, reads, falses, consumeCalls, nextCalls, pulled, copies>>

(* --------------------- MultiConsume: coordinator ----------------------- *)

Advance_RoundBreaks(phase) ==
  IF coI < n /\ phase # "round"
  THEN coI' = coI + 1 /\ coPc' = phase
  ELSE coI' = 1 /\ coPc' = IF phase = "drain" THEN "drain_test" ELSE "test"

\* The end of one iteration of `for i := range streams` in loop `phase`.
Advance(phase) ==
  IF coI < n
  THEN coI' = coI + 1 /\ coPc' = phase
  ELSE coI' = 1 /\ coPc' = IF phase = "drain" THEN "drain_test" ELSE "test"

\* Setup loop, lines 30-32: make stream i and start its consumer task, then
\* enter cleanupIfDone (line 97).  With no stream left the loop ends.
Spawn ==
  /\ UNCHANGED nonMcVars
  /\ coPc = "setup"
  /\ IF coI <= n
     THEN /\ sPtrCh' = [sPtrCh EXCEPT ![coI] = "chan"]
          /\ sNextReturnCh' = [sNextReturnCh EXCEPT ![coI] = "chan"]
          /\ consPc' = [consPc EXCEPT ![coI] = "user"]
          /\ consumeCalls' = [consumeCalls EXCEPT ![coI] = @ + 1]
          /\ coPc' = "recv"
     ELSE /\ coPc' = "test"
          /\ UNCHANGED <<sPtrCh, sNextReturnCh, consPc, consumeCalls>>
  /\ UNCHANGED <<n, upLen, upPos, slotVal, coPhase, coI, coVal,
                 stillConsuming, sCloses, sPtr, dest, got, reads, falses,
                 nextCalls, pulled, copies>>

sDone_Never(p) == FALSE

\* splitStream.cleanupIfDone, line 98: `s.ptr == nil`.
sDone(p) == p = Nil

\* ptrCh rendezvous: cleanupIfDone line 97 with splitStream.Next line 80 (a
\* read, carrying the consumer's destination) or consumerWrapper line 70
\* (the completion sentinel, nil).  Then lines 98-105 and the caller's
\* update of stillConsuming (lines 33-35, 44-46, 52-54).
RecvPtr ==
  /\ UNCHANGED nonMcVars
  /\ coPc = "recv" /\ coI \in 1..n
  /\ consPc[coI] \in {"send", "sentinel"}
  /\ LET p == IF consPc[coI] = "send" THEN coI ELSE Nil IN
       /\ sPtr' = [sPtr EXCEPT ![coI] = p]
       /\ IF sDone(p)
          THEN /\ sPtrCh' = [sPtrCh EXCEPT ![coI] = "nil"]
               /\ sNextReturnCh' = [sNextReturnCh EXCEPT ![coI] = "nil"]
               /\ sCloses' = [sCloses EXCEPT ![coI] = @ + 1]
               /\ UNCHANGED stillConsuming
          ELSE /\ stillConsuming' = TRUE
               /\ UNCHANGED <<sPtrCh, sNextReturnCh, sCloses>>
  /\ consPc' = [consPc EXCEPT ![coI] = IF @ = "send" THEN "wait" ELSE "done"]
  /\ Advance(coPhase)
  /\ UNCHANGED <<n, upLen, upPos, slotVal, coPhase, coVal, dest, got, reads,
                 falses, consumeCalls, nextCalls, pulled, copies>>

RoundCondition_Always == TRUE

\* Line 37, the left operand of `stillConsuming && s.Next(ptr)`.
RoundCondition == stillConsuming

RoundReset_Missing == stillConsuming

\* Line 38: `stillConsuming = false` at the head of the round loop's body.
RoundReset == FALSE

\* Line 37: the test of the round loop; s.Next(ptr) is called only if
\* stillConsuming.  Line 38 when the loop body is entered.
LoopTest ==
  /\ UNCHANGED nonMcVars
  /\ coPc = "test"
  /\ IF RoundCondition
     THEN /\ nextCalls' = nextCalls + 1
          /\ IF upPos < upLen
             THEN /\ upPos' = upPos + 1
                  /\ slotVal' = Elem(upPos + 1)
                  /\ pulled' = Append(pulled, Elem(upPos + 1))
                  /\ stillConsuming' = RoundReset
                  /\ coI' = 1 /\ coPc' = "round" /\ coPhase' = "round"
             ELSE /\ coPc' = "drain_test"
                  /\ UNCHANGED <<upPos, slotVal, pulled, stillConsuming, coI,
                                 coPhase>>
     ELSE /\ coPc' = "drain_test"
          /\ UNCHANGED <<nextCalls, upPos, slotVal, pulled, stillConsuming,
                         coI, coPhase>>
  /\ UNCHANGED <<n, upLen, coVal, sPtrCh, sNextReturnCh, sCloses, sPtr,
                 consPc, dest, got, reads, falses, consumeCalls, copies>>

nextReturnFindsClosed_Never(i) == FALSE

\* splitStream.nextReturn, line 89: `s.nextReturnCh == nil`.
nextReturnFindsClosed(i) == sNextReturnCh[i] = "nil"

currentPtr_First(i) == sPtr[1]

\* splitStream.currentPtr, lines 84-86.
currentPtr(i) == sPtr[i]

RoundReturnValue_False == FALSE

\* Line 44: the argument of `streams[i].nextReturn(true)`.
RoundReturnValue == TRUE

\* Lines 40-44: copy the shared value to stream i's pending destination,
\* then nextReturn(true) up to its send (line 92).
RoundStep ==
  /\ UNCHANGED nonMcVars
  /\ coPc = "round" /\ coI \in 1..n
  /\ IF currentPtr(coI) # Nil
     THEN /\ dest' = [dest EXCEPT ![currentPtr(coI)] = assignCopier(slotVal, @)]
          /\ copies' = [copies EXCEPT ![coI] = @ + 1]
     ELSE UNCHANGED <<dest, copies>>
  /\ IF nextReturnFindsClosed(coI)
     THEN Advance("round") /\ UNCHANGED coVal
     ELSE coPc' = "send" /\ coVal' = RoundReturnValue /\ UNCHANGED coI
  /\ UNCHANGED <<n, upLen, upPos, slotVal, coPhase, stillConsuming, sPtrCh,
                 sNextReturnCh, sCloses, sPtr, consPc, got, reads, falses,
                 consumeCalls, nextCalls, pulled>>

nextReturnThen_NoWait == "test"

\* splitStream.nextReturn, line 93: after its send the coordinator runs
\* `s.cleanupIfDone()`, whose first statement is the receive of line 97.
nextReturnThen == "recv"

\* nextReturnCh rendezvous: nextReturn line 92 with splitStream.Next
\* line 81; the consumer's Next returns coVal, the coordinator enters
\* cleanupIfDone.
SendReturn ==
  /\ UNCHANGED nonMcVars
  /\ coPc = "send" /\ coI \in 1..n /\ consPc[coI] = "wait"
  /\ consPc' = [consPc EXCEPT ![coI] = IF coVal THEN "got" ELSE "user"]
  /\ falses' = [falses EXCEPT ![coI] = IF coVal THEN @ ELSE @ + 1]
  /\ coPc' = nextReturnThen
  /\ UNCHANGED <<n, upLen, upPos, slotVal, coPhase, coI, coVal,
                 stillConsuming, sPtrCh, sNextReturnCh, sCloses, sPtr, dest,
                 got, reads, consumeCalls, nextCalls, pulled, copies>>

DrainCondition_Never == FALSE

DrainCondition_OnePass == stillConsuming /\ coPhase # "drain"

\* Line 49: `for stillConsuming`.
DrainCondition == stillConsuming

DrainReset_Missing == stillConsuming

\* Line 50: `stillConsuming = false` at the head of the drain loop's body.
DrainReset == FALSE

\* Line 49-50: the test of the drain loop; MultiConsume returns when it fails.
DrainTest ==
  /\ UNCHANGED nonMcVars
  /\ coPc = "drain_test"
  /\ IF DrainCondition
     THEN stillConsuming' = DrainReset /\ coI' = 1 /\ coPc' = "drain"
          /\ coPhase' = "drain"
     ELSE coPc' = "done" /\ UNCHANGED <<stillConsuming, coI, coPhase>>
  /\ UNCHANGED <<n, upLen, upPos, slotVal, coVal, sPtrCh, sNextReturnCh,
                 sCloses, sPtr, consPc, dest, got, reads, falses,
                 consumeCalls, nextCalls, pulled, copies>>

DrainReturnValue_True == TRUE

\* Line 52: the argument of `streams[i].nextReturn(false)`.
DrainReturnValue == FALSE

\* Line 52: nextReturn(false) up to its send (line 92).
DrainStep ==
  /\ UNCHANGED nonMcVars
  /\ coPc = "drain" /\ coI \in 1..n
  /\ IF nextReturnFindsClosed(coI)
     THEN Advance("drain") /\ UNCHANGED coVal
     ELSE coPc' = "send" /\ coVal' = DrainReturnValue /\ UNCHANGED coI
  /\ UNCHANGED <<n, upLen, upPos, slotVal, coPhase, stillConsuming, sPtrCh,
                 sNextReturnCh, sCloses, sPtr, consPc, dest, got, reads,
                 falses, consumeCalls, nextCalls, pulled, copies>>

\* MultiConsume is entered with any number of consumers and any upstream.
InitMC ==
  /\ GenIdle
  /\ QueueIdle /\ WrapperIdle /\ StreamsIdle
  /\ \E num \in 0..MaxConsumers : \E len \in 0..MaxUp : McEntry(num, len)

NextMC ==
  \/ \E i \in Consumers : ConsumerNext(i)
  \/ \E i \in Consumers : ConsumerTake(i)
  \/ \E i \in Consumers : ConsumerReturn(i)
  \/ Spawn
  \/ RecvPtr
  \/ LoopTest
  \/ RoundStep
  \/ SendReturn
  \/ DrainTest
  \/ DrainStep

SpecMC == InitMC /\ [][NextMC]_vars

\* Every goroutine that can take a step is eventually scheduled (the Go
\* scheduler runs every runnable goroutine), and a consumer routine, which
\* issues at most MaxReads reads, eventually returns.
FairSpecMC == SpecMC /\ WF_vars(NextMC)

(* --------------------- odqueue ----------------------------------------- *)

newElementNext_Nil(id) == Nil

\* newElement, lines 57-61: `result.next = result`.
newElementNext(id) == id

\* Element.Next, lines 26-28.
ElementNext(e) == qNext[e]

IsEnd_Never(e) == FALSE

\* Element.IsEnd, lines 31-33: `e == e.next`.
IsEnd(e) == e = qNext[e]

\* Queue.End, lines 52-54.
End == qEnd

AddEnd_Stale(nw) == qEnd

\* Queue.Add, line 45: `q.e = n`.
AddEnd(nw) == nw

\* NewQueue, lines 12-15: the Queue holds one new element, its end.
InitQ ==
  /\ GenIdle /\ McEntry(0, 0)
  /\ WrapperIdle /\ StreamsIdle
  /\ qAlloc = 1 /\ qEnd = 1
  /\ qNext = [e \in Elements |-> IF e = 1 THEN newElementNext(1) ELSE Nil]
  /\ qValue = [e \in Elements |-> Nil]
  /\ qAdded = <<>>
  /\ cur = [c \in Clients |-> Nil]
  /\ base = [c \in Clients |-> 0]
  /\ result = [c \in Clients |-> <<>>]
  /\ runs = [c \in Clients |-> 0]

\* Queue.Add(x), lines 41-47: store x in the end element, allocate a new
\* element, link it after the old end and make it the end.
Add(x) ==
  /\ UNCHANGED nonQVars
  /\ qAlloc <= MaxAdds
  /\ LET nw == qAlloc + 1 IN
       /\ qValue' = [qValue EXCEPT ![qEnd] = x]
       /\ qNext' = [qNext EXCEPT ![nw] = newElementNext(nw), ![qEnd] = nw]
       /\ qEnd' = AddEnd(nw)
       /\ qAlloc' = nw
  /\ qAdded' = Append(qAdded, x)
  /\ UNCHANGED <<cur, base, result, runs>>

\* A client captures its position: `p := q.End()` (test, line 10).
Capture(c) ==
  /\ UNCHANGED nonQVars
  /\ cur[c] = Nil
  /\ cur' = [cur EXCEPT ![c] = End]
  /\ base' = [base EXCEPT ![c] = Len(qAdded)]
  /\ UNCHANGED <<qNext, qValue, qEnd, qAlloc, qAdded, result, runs>>

\* One iteration of toSlice's loop (test, lines 28-31): the position is not
\* an end element, so its Value is appended and the position advances.
Step(c) ==
  /\ UNCHANGED nonQVars
  /\ cur[c] # Nil /\ ~IsEnd(cur[c])
  /\ result' = [result EXCEPT ![c] = Append(@, qValue[cur[c]])]
  /\ cur' = [cur EXCEPT ![c] = ElementNext(cur[c])]
  /\ UNCHANGED <<qNext, qValue, qEnd, qAlloc, qAdded, base, runs>>

\* toSlice's loop ends at an end element and the call returns (test, lines
\* 28, 32); the client's next toSlice call starts from the same position.
Finish(c) ==
  /\ UNCHANGED nonQVars
  /\ cur[c] # Nil /\ IsEnd(cur[c]) /\ runs[c] < MaxRuns
  /\ runs' = [runs EXCEPT ![c] = @ + 1]
  /\ base' = [base EXCEPT ![c] = Len(qAdded)]
  /\ result' = [result EXCEPT ![c] = <<>>]
  /\ UNCHANGED <<qNext, qValue, qEnd, qAlloc, qAdded, cur>>

NextQ ==
  \/ \E x \in Values : Add(x)
  \/ \E c \in Clients : Capture(c)
  \/ \E c \in Clients : Step(c)
  \/ \E c \in Clients : Finish(c)

SpecQ == InitQ /\ [][NextQ]_vars

(* --------------------- Slice ------------------------------------------- *)

SliceContinue_NoEnd(index) == TRUE

\* sliceStream.Next, line 489: `s.end < 0 || s.index < s.end`, the left
\* operand of the loop condition.
SliceContinue(index) == slEnd < 0 \/ index < slEnd

SliceEmits_All(index) == TRUE

\* sliceStream.Next, line 490: `s.index >= s.start`.
SliceEmits(index) == index >= slStart

RECURSIVE SliceLoop(_, _, _, _)
\* sliceStream.Next, lines 489-496, from a state with the given index, the
\* underlying Stream at position pos after ncalls Next calls, and dst at
\* ptr: the result, and the state when Next returns.  The underlying
\* Stream stores its next element at ptr and returns true while it has one.
SliceLoop(index, pos, ncalls, dst) ==
  IF SliceContinue(index)
  THEN IF pos < slLen
       THEN IF SliceEmits(index)
            THEN [ret |-> TRUE, index |-> index + 1, pos |-> pos + 1,
                  calls |-> ncalls + 1, dst |-> Elem(pos + 1)]
            ELSE SliceLoop(index + 1, pos + 1, ncalls + 1, Elem(pos + 1))
       ELSE [ret |-> FALSE, index |-> index, pos |-> pos,
             calls |-> ncalls + 1, dst |-> dst]
  ELSE [ret |-> FALSE, index |-> index, pos |-> pos, calls |-> ncalls,
        dst |-> dst]

\* Slice(s, start, end), lines 186-188: index starts at 0.
InitSlice ==
  /\ GenIdle /\ McEntry(0, 0) /\ QueueIdle /\ WrapperIdle
  /\ JoinIdle /\ GroupIdle
  /\ slStart \in 0..MaxIndex /\ slEnd \in (0 - 1)..MaxIndex
  /\ slLen \in 0..MaxUp
  /\ slIndex = 0 /\ slPos = 0 /\ slCalls = 0 /\ slDst = Nil
  /\ slOut = <<>> /\ slRet = "none" /\ slNexts = 0

\* sliceStream.Next(ptr), lines 488-497.
SliceNext ==
  /\ UNCHANGED nonSlVars
  /\ slNexts < MaxNexts
  /\ LET r == SliceLoop(slIndex, slPos, slCalls, slDst) IN
       /\ slIndex' = r.index /\ slPos' = r.pos /\ slCalls' = r.calls
       /\ slDst' = r.dst
       /\ slRet' = IF r.ret THEN "true" ELSE "false"
       /\ slOut' = IF r.ret THEN Append(slOut, r.dst) ELSE slOut
  /\ slNexts' = slNexts + 1
  /\ UNCHANGED <<slStart, slEnd, slLen>>

NextSlice == SliceNext

SpecSlice == InitSlice /\ [][NextSlice]_vars

(* --------------------- Join -------------------------------------------- *)

JoinFindsNil_Never == FALSE

\* joinStream.Next, line 522: `s.streams == nil`.
JoinFindsNil == jNil

JoinStops_KeepsStreams == FALSE

\* joinStream.Next, line 528: `s.streams = nil` when an input is exhausted.
JoinStops == TRUE

RECURSIVE JoinLoop(_, _, _, _)
\* joinStream.Next, lines 526-531, from input i on: each input's Next stores
\* its next element at ptrs[i] and returns true while it has one; the first
\* input that returns false ends the call.
JoinLoop(i, pos, ncalls, dst) ==
  IF i > jN
  THEN [ret |-> TRUE, nil |-> FALSE, pos |-> pos, calls |-> ncalls,
        dst |-> dst]
  ELSE IF pos[i] < jLen[i]
       THEN JoinLoop(i + 1, [pos EXCEPT ![i] = @ + 1],
                     [ncalls EXCEPT ![i] = @ + 1],
                     [dst EXCEPT ![i] = Elem(pos[i] + 1)])
       ELSE [ret |-> FALSE, nil |-> JoinStops, pos |-> pos,
             calls |-> [ncalls EXCEPT ![i] = @ + 1], dst |-> dst]

\* Join(s...), lines 202-204: the joinStream holds the given slice, which
\* is nil when Join is called without a Stream.
InitJoin ==
  /\ GenIdle /\ McEntry(0, 0) /\ QueueIdle /\ WrapperIdle
  /\ SliceIdle /\ GroupIdle
  /\ jN \in 0..MaxStreams /\ jNil = (jN = 0)
  /\ jLen \in [Streams -> 0..MaxUp]
  /\ \A i \in Streams : i > jN => jLen[i] = 0
  /\ jPos = [i \in Streams |-> 0] /\ jCalls = [i \in Streams |-> 0]
  /\ jDst = [i \in Streams |-> Nil]
  /\ jOut = <<>> /\ jRet = "none" /\ jNexts = 0

\* joinStream.Next(ptr), lines 521-533.
JoinNext ==
  /\ UNCHANGED nonJVars
  /\ jNexts < MaxNexts
  /\ jNexts' = jNexts + 1
  /\ IF JoinFindsNil
     THEN /\ jRet' = "false"
          /\ UNCHANGED <<jNil, jPos, jCalls, jDst, jOut>>
     ELSE LET r == JoinLoop(1, jPos, jCalls, jDst) IN
            /\ jNil' = r.nil /\ jPos' = r.pos /\ jCalls' = r.calls
            /\ jDst' = r.dst
            /\ jRet' = IF r.ret THEN "true" ELSE "false"
            /\ jOut' = IF r.ret THEN Append(jOut, r.dst) ELSE jOut
  /\ UNCHANGED <<jN, jLen>>

NextJoin == JoinNext

SpecJoin == InitJoin /\ [][NextJoin]_vars

(* --------------------- GroupBy ----------------------------------------- *)

\* The j-th element of the underlying Stream: its key and its rank.
GbElem(j) == <<gbUp[j], j>>

\* the contents of storage nothing has been stored in
NoElem == <<Nil, Nil>>

\* The KeyFunc k applied to the value at a pointer.
KeyOf(e) == e[1]

\* The fields of the Group, the position of the underlying Stream and the
\* value at the caller's ptr, as one record.
GroupState ==
  [pos |-> gbPos, key |-> gbKey, ptr |-> gbPtr, keySet |-> gbKeySet,
   ptrSaved |-> gbPtrSaved, halted |-> gbHalted, dst |-> gbDst,
   ret |-> FALSE]

isSameKey_Always(st, key) == TRUE

\* Group.isSameKey, lines 129-131.
isSameKey(st, key) == st.keySet /\ st.key = key

\* Group.Next(ptr), lines 97-115, in state st; own tells that ptr is g.ptr
\* (the call made by advance), otherwise ptr is the caller's pointer.
\* copyValue does nothing when source and destination are the same pointer
\* and is the Copier (assignment) otherwise.
GroupNextOp(st, own) ==
  IF st.halted
  THEN [st EXCEPT !.ret = FALSE]
  ELSE IF st.ptrSaved
  THEN [st EXCEPT !.dst = IF own THEN @ ELSE assignCopier(st.ptr, @),
                  !.ptrSaved = FALSE, !.ret = TRUE]
  ELSE IF st.pos < Len(gbUp)
  THEN LET e == GbElem(st.pos + 1)
           t == IF own THEN [st EXCEPT !.ptr = e, !.pos = @ + 1]
                       ELSE [st EXCEPT !.dst = e, !.pos = @ + 1]
       IN IF ~isSameKey(t, KeyOf(e))
          THEN [t EXCEPT !.ptr = IF own THEN @ ELSE assignCopier(e, @),
                         !.ptrSaved = TRUE, !.halted = TRUE, !.ret = FALSE]
          ELSE [t EXCEPT !.ret = TRUE]
  ELSE [st EXCEPT !.ret = FALSE]

RECURSIVE AdvanceLoop(_)
\* Group.advance, lines 134-135: `for g.Next(g.ptr) {}`.
AdvanceLoop(st) ==
  LET r == GroupNextOp(st, TRUE) IN IF r.ret THEN AdvanceLoop(r) ELSE r

\* the sequences whose keys never decrease (the values in s must already
\* be sorted by k)
SortedKeys ==
  {u \in UNION {[1..len -> 1..MaxKey] : len \in 0..MaxUp} :
     \A j \in 1..(Len(u) - 1) : u[j] <= u[j + 1]}

\* GroupBy(s, k, ptr, c), lines 309-314: a Group with no key set.
InitGroupBy ==
  /\ GenIdle /\ McEntry(0, 0) /\ QueueIdle /\ WrapperIdle
  /\ SliceIdle /\ JoinIdle
  /\ gbUp \in SortedKeys
  /\ gbPos = 0 /\ gbKey = Nil /\ gbPtr = NoElem
  /\ gbKeySet = FALSE /\ gbPtrSaved = FALSE /\ gbHalted = FALSE
  /\ gbDst = NoElem /\ gbKeys = <<>> /\ gbElems = <<>>
  /\ gbRet = "none" /\ grRet = "none" /\ gbOps = 0

\* groupByStream.Next(&group), lines 677-684, with Group.advance, lines
\* 133-143: the rest of the current Group is skipped; if a value of another
\* key was saved the Group takes its key and is emitted.
GroupByNext ==
  /\ UNCHANGED nonGbVars
  /\ gbOps < MaxOps
  /\ gbOps' = gbOps + 1
  /\ LET r == AdvanceLoop(GroupState) IN
       /\ gbPos' = r.pos /\ gbPtr' = r.ptr /\ gbPtrSaved' = r.ptrSaved
       /\ gbDst' = r.dst
       /\ grRet' = "none"
       /\ IF r.halted
          THEN /\ gbHalted' = FALSE
               /\ gbKey' = KeyOf(r.ptr) /\ gbKeySet' = TRUE
               /\ gbRet' = "true"
               /\ gbKeys' = Append(gbKeys, KeyOf(r.ptr))
               /\ gbElems' = Append(gbElems, <<>>)
          ELSE /\ gbHalted' = r.halted
               /\ gbKey' = r.key /\ gbKeySet' = r.keySet
               /\ gbRet' = "false"
               /\ UNCHANGED <<gbKeys, gbElems>>
  /\ UNCHANGED gbUp

\* The caller calls Next(ptr) on the Group it was handed last; a Group is
\* valid only until Next is called again on the GroupBy stream.
GroupNext ==
  /\ UNCHANGED nonGbVars
  /\ gbOps < MaxOps /\ gbRet = "true"
  /\ gbOps' = gbOps + 1
  /\ LET r == GroupNextOp(GroupState, FALSE) IN
       /\ gbPos' = r.pos /\ gbPtr' = r.ptr /\ gbPtrSaved' = r.ptrSaved
       /\ gbHalted' = r.halted /\ gbKey' = r.key /\ gbKeySet' = r.keySet
       /\ gbDst' = r.dst
       /\ grRet' = IF r.ret THEN "true" ELSE "false"
       /\ gbElems' = IF r.ret
                     THEN [gbElems EXCEPT ![Len(gbElems)] = Append(@, r.dst)]
                     ELSE gbElems
  /\ UNCHANGED <<gbUp, gbKeys, gbRet>>

NextGroupBy == GroupByNext \/ GroupNext

SpecGroupBy == InitGroupBy /\ [][NextGroupBy]_vars

(* --------------------- StreamToGenerator ------------------------------- *)

StreamToGenerator_OwnCloser(s, c) == [Stream |-> s, Closer |-> "c"]

\* StreamToGenerator, lines 40-42: `&simpleGenerator{s, c}`.
StreamToGenerator(s, c) == [Stream |-> s, Closer |-> c]

\* the simpleGenerator under study
simpleGenerator == StreamToGenerator(sgStream, sgCloser)

\* NewGenerator has been called and its Generator g is handed to
\* StreamToGenerator as s, with g itself or another io.Closer as c.
InitSG ==
  /\ GenNew
  /\ McEntry(0, 0) /\ QueueIdle /\ StreamsIdle
  /\ sgStream = "g" /\ sgCloser \in {"g", "c"} /\ cCloses = 0

\* simpleGenerator.Next(ptr): the method of the embedded Stream (line 79).
SGNext(ptr) ==
  /\ simpleGenerator.Stream = "g"
  /\ Next(ptr)

\* Close of an io.Closer other than g: it returns nil and leaves g alone.
CloserClose ==
  /\ UNCHANGED nonSgVars
  /\ callerPc = "idle" /\ calls < MaxCalls
  /\ calls' = calls + 1
  /\ callerOp' = "Close" /\ callerArg' = Nil /\ ret' = "nil"
  /\ cCloses' = cCloses + 1
  /\ UNCHANGED <<sgStream, sgCloser>>
  /\ UNCHANGED <<gPtrCh, gDoneCh, ptrChCloses, doneChCloses, callerPc, prodPc,
                 slot, filled, mem, obeysNil, chOps, handed, received,
                 yielded, committed, stored, allFilled, falseSeen, finished>>

\* simpleGenerator.Close(): the method of the embedded io.Closer (line 80).
SGClose ==
  IF simpleGenerator.Closer = "g" THEN Close ELSE CloserClose

NextSG ==
  \/ \E p \in Ptrs : SGNext(p)
  \/ SGClose
  \/ \E p \in Ptrs : Next(p)
  \/ \E v \in Values : ProducerWrite(v)
  \/ EmitPtrCall
  \/ ProducerReturn
  \/ EmitPtrAnnounce
  \/ WrapperAnnounce
  \/ HandSlot

SpecSG == InitSG /\ [][NextSG]_vars

(* ======================= Generator: properties ========================= *)

IsPrefix(a, b) == Len(a) <= Len(b) /\ SubSeq(b, 1, Len(a)) = a

C3_Exhausted ==
  /\ callerPc = "idle"
  /\ falseSeen \/ (obeysNil /\ callerOp = "Close")

C3_ExhaustionIsSticky ==
  [][C3_Exhausted =>
       /\ callerPc' = "idle"
       /\ chOps' = chOps /\ prodPc' = prodPc /\ handed' = handed
       /\ (callerOp' = "Next" => ret' = "false")]_vars

C3_Witness ==
  /\ callerPc = "idle" /\ falseSeen /\ ret = "false" /\ callerOp = "Next"
  /\ calls = 3 /\ Len(handed) = 1 /\ handed[1] # Nil

\* C4: on a closed Generator (ptrCh is nil) every Close and Next returns at
\* once with nil / false, performs no channel operation, does not panic or
\* block, and leaves the Generator closed.
C4_CloseIsIdempotent ==
  [][(gPtrCh = "nil" /\ callerPc = "idle") =>
       /\ gPtrCh' = "nil" /\ gDoneCh' = "nil"
       /\ ptrChCloses' = ptrChCloses /\ doneChCloses' = doneChCloses
       /\ chOps' = chOps
       /\ callerPc' = "idle"
       /\ ret' = IF callerOp' = "Close" THEN "nil" ELSE "false"]_vars

C4_Witness ==
  /\ callerPc = "idle" /\ gPtrCh = "nil" /\ callerOp = "Close" /\ ret = "nil"
  /\ calls = 3 /\ handed = <<Nil>>

\* C5: while a Close on an open Generator waits, the producer's EmitPtr has
\* returned nil; when Close has returned on a Generator whose producer
\* returns on nil, the producer routine has returned and its task has
\* ended, the Generator is closed, the task takes no further step and a
\* later Next returns false.
C5_CloseReturned == callerPc = "idle" /\ callerOp = "Close" /\ obeysNil

C5_CloseStopsProducer ==
  /\ [](/\ (callerPc = "recv" /\ callerOp = "Close")
             => (slot = Nil /\ received[Len(received)] = Nil)
        /\ C5_CloseReturned
             => (finished /\ prodPc = "exited" /\ gPtrCh = "nil"))
  /\ [][C5_CloseReturned =>
          (prodPc' = "exited" /\ (callerOp' = "Next" => ret' = "false"))]_vars

C5_Witness ==
  /\ C5_CloseReturned /\ Len(yielded) = 2 /\ Len(handed) = 3
  /\ handed[3] = Nil /\ finished

\* C6: when the producer has returned without ever calling EmitPtr, the
\* Generator is closed as soon as NewGenerator has returned, and no Next
\* returns true: the first and every later Next returns false.
C6_NeverEmitted ==
  received = <<>> /\ prodPc \in {"user", "done_send", "exited"}

C6_EmptyProducerIsClosed ==
  (callerPc = "idle" /\ C6_NeverEmitted) =>
     /\ prodPc = "exited" /\ finished
     /\ gPtrCh = "nil" /\ gDoneCh = "nil"
     /\ ret \in {"g", "false", "nil"} /\ yielded = <<>> /\ handed = <<>>

C6_Witness ==
  /\ callerPc = "idle" /\ C6_NeverEmitted
  /\ calls = 2 /\ callerOp = "Next" /\ ret = "false"

\* number of EmitPtr calls the producer has made
EmitCalls ==
  Len(received) + (IF prodPc \in {"emit_send", "emit_recv"} THEN 1 ELSE 0)

\* C14 as stated: the producer executes user code only after EmitPtr has
\* returned a slot to it (until its next EmitPtr call or its return), the
\* slots handed to it never outnumber the caller's Next/Close calls, and it
\* is never more than one EmitPtr call ahead of the caller.
C14_UserCodeOnlyWithSlot ==
  /\ prodPc = "user" => received # <<>>
  /\ Len(received) <= calls
  /\ EmitCalls <= calls + 1

\* C14 as amended: the producer executes user code only before its first
\* EmitPtr call, while NewGenerator waits, or holding the slot of the
\* caller's pending call; the slots handed to it never outnumber the
\* caller's Next/Close calls, it is never more than one EmitPtr call ahead
\* of the caller, and at most one filled slot awaits the caller.
C14_OneValueInFlight ==
  /\ prodPc = "user" =>
       \/ received = <<>> /\ callerOp = "New" /\ callerPc = "recv"
       \/ /\ received # <<>> /\ callerPc = "recv" /\ callerOp # "New"
          /\ slot = callerArg /\ Len(received) = calls
  /\ Len(received) <= calls
  /\ EmitCalls <= calls + 1
  /\ Len(committed) <= Len(yielded) + 1

C14_Witness ==
  /\ prodPc = "emit_recv" /\ callerPc = "idle"
  /\ calls = 2 /\ EmitCalls = 3 /\ Len(yielded) = 2

\* C16: whenever the producer task executes user code (holding a slot, or
\* before its first EmitPtr call) the caller is blocked in cleanupIfDone
\* inside Next, Close or NewGenerator, and whenever the caller runs outside
\* a call the producer is blocked in EmitPtr or has ended: the destination
\* is never accessed by both.
C16_NoConcurrentAccess ==
  /\ prodPc = "user" => callerPc = "recv"
  /\ (prodPc = "user" /\ received # <<>>)
        => (callerOp \in {"Next", "Close"} /\ slot = callerArg)
  /\ callerPc = "idle" => prodPc \in {"emit_recv", "exited"}

C16_Witness ==
  /\ prodPc = "user" /\ filled /\ slot \in Ptrs /\ callerPc = "recv"
  /\ callerOp = "Next" /\ Len(yielded) = 1

\* C18: while the producer holds the nil slot of a Close and has neither
\* returned nor called EmitPtr again, that Close has not returned; and a
\* waiting Close leaves its wait only in a step in which the producer
\* announces (calls EmitPtr again or has returned): there is no other escape.
C18_CloseWaitsForProducer ==
  /\ [](( prodPc = "user" /\ received # <<>> /\ slot = Nil)
           => (callerPc = "recv" /\ callerOp = "Close"))
  /\ [][(callerOp = "Close" /\ callerPc = "recv" /\ callerPc' # "recv")
           => (prodPc \in {"emit_send", "done_send"} /\ prodPc' # prodPc)]_vars

C18_Witness ==
  /\ ~obeysNil /\ prodPc = "user" /\ slot = Nil /\ received # <<>>
  /\ callerPc = "recv" /\ callerOp = "Close" /\ Len(yielded) = 1

\* C19: at every call boundary ptrCh is nil iff doneCh is nil iff both
\* channels have been closed, each exactly once and only after the producer
\* announced "finished" (its task has ended); and no task is at, or panics
\* in, a send or receive on a closed channel.
C19_ReleasedOnceTogether ==
  /\ (gPtrCh = "nil") = (gDoneCh = "nil")
  /\ ptrChCloses \in {0, 1} /\ doneChCloses = ptrChCloses
  /\ (gPtrCh = "nil") = (ptrChCloses = 1)
  /\ ptrChCloses = 1 => (prodPc = "exited" /\ finished /\ callerPc = "idle")
  /\ callerPc # "panic"
  /\ (callerPc \in {"send", "recv"}
        \/ prodPc \in {"emit_send", "emit_recv", "done_send"})
        => ptrChCloses = 0

C19_Witness ==
  /\ gPtrCh = "nil" /\ ptrChCloses = 1 /\ doneChCloses = 1
  /\ calls = 3 /\ Len(handed) = 2 /\ callerOp = "Close"

\* C20: while the caller is outside any call and the Generator is not
\* closed, the producer is blocked in EmitPtr's receive; it leaves that
\* receive only through a Next or Close of the caller, its task ends only
\* while the caller waits in a call, and as long as the caller makes no
\* call nothing changes: the task stays blocked and the channels stay open.
C20_ProducerStaysBlocked ==
  /\ []((callerPc = "idle" /\ gPtrCh # "nil")
          => (prodPc = "emit_recv" /\ ptrChCloses = 0 /\ doneChCloses = 0))
  /\ [][/\ (prodPc = "emit_recv" /\ prodPc' # "emit_recv")
             => (callerPc = "send" /\ callerOp \in {"Next", "Close"})
        /\ (prodPc # "exited" /\ prodPc' = "exited") => callerPc = "recv"
        /\ (callerPc = "idle" /\ calls' = calls)
             => UNCHANGED <<prodPc, gPtrCh, gDoneCh, ptrChCloses>>]_vars

C20_Witness ==
  /\ callerPc = "idle" /\ gPtrCh = "chan" /\ prodPc = "emit_recv"
  /\ calls = MaxCalls /\ Len(yielded) = 1 /\ callerOp = "Next"

(* ======================= MultiConsume: properties ====================== *)

RECURSIVE MaxReadsUpTo(_)
\* the largest number of reads issued by one of the consumers 1..k
MaxReadsUpTo(k) ==
  IF k = 0 THEN 0
  ELSE LET m == MaxReadsUpTo(k - 1) IN IF reads[k] > m THEN reads[k] ELSE m

\* C7: each consumer's Consume is invoked at most once, and when
\* MultiConsume has returned every consumer's Consume was invoked exactly
\* once and has returned, its sentinel was received (the stream's channels
\* are released), whether it read to exhaustion, stopped early or never read.
C7_JoinsEveryConsumer ==
  /\ \A i \in 1..n : consumeCalls[i] <= 1
  /\ coPc = "done" =>
       \A i \in 1..n : /\ consumeCalls[i] = 1
                       /\ consPc[i] = "done"
                       /\ sPtrCh[i] = "nil" /\ sNextReturnCh[i] = "nil"
                       /\ sCloses[i] = 1

C7_Witness ==
  /\ coPc = "done" /\ n = 3 /\ upLen = 2
  /\ reads[1] = 0 /\ reads[2] = 1 /\ reads[3] = 3 /\ falses[3] = 1

\* C8: the j-th value a consumer reads is the j-th element pulled from
\* upstream, for every consumer, however far the others read.
C8_GapFreePrefix ==
  \A i \in 1..n :
     /\ Len(got[i]) <= Len(pulled)
     /\ \A j \in 1..Len(got[i]) : got[i][j] = pulled[j] /\ got[i][j] = Elem(j)

C8_Witness ==
  /\ n = 2 /\ Len(got[1]) = 1 /\ consPc[1] = "done"
  /\ Len(got[2]) = 3 /\ got[2][3] = Elem(3)

\* C9: every call of upstream Next is made while some consumer has a
\* pending, unanswered read; at the test of the round loop every consumer
\* still reading has been answered once per earlier call; and while no
\* consumer has issued a read (or there is no consumer) upstream Next is
\* not called and upstream's position is unchanged.
C9_PullsOnlyWhileActive ==
  /\ [](/\ (\A i \in 1..n : reads[i] = 0) => (nextCalls = 0 /\ upPos = 0)
        /\ coPc = "test" =>
             \A i \in 1..n : consPc[i] = "wait" => reads[i] = nextCalls + 1)
  /\ [][nextCalls' # nextCalls =>
          /\ nextCalls' = nextCalls + 1
          /\ \E i \in 1..n : consPc[i] = "wait" /\ sPtr[i] # Nil]_vars

C9_Witness ==
  /\ coPc = "done" /\ n = 2 /\ upLen = 2 /\ nextCalls = 0 /\ upPos = 0
  /\ consPc[1] = "done" /\ consPc[2] = "done"

\* C10: when MultiConsume has returned and upstream held at least as many
\* elements as the longest-reading consumer asked for, the number of
\* upstream Next calls, and upstream's position, equal the largest number
\* of reads issued by one consumer.
C10_NeverOverPulls ==
  (coPc = "done" /\ upLen >= MaxReadsUpTo(n)) =>
     (nextCalls = MaxReadsUpTo(n) /\ upPos = MaxReadsUpTo(n))

C10_Witness ==
  /\ coPc = "done" /\ n = 3 /\ upLen = 3
  /\ reads[1] = 0 /\ reads[2] = 2 /\ reads[3] = 2 /\ upPos = 2
\* C11: once a read of a consumer has returned false, no later read of that
\* consumer returns true; a further read it issues can only end by being
\* answered with false, and none stays unanswered for ever; and
\* MultiConsume returns.
C11_FalseIsSticky ==
  /\ [][\A i \in 1..n : falses[i] > 0 =>
          /\ consPc'[i] # "got" /\ got'[i] = got[i]
          /\ (consPc[i] = "wait" /\ consPc'[i] # "wait") =>
                (consPc'[i] = "user" /\ falses'[i] = falses[i] + 1)]_vars
  /\ <>[](\A i \in 1..n : ~(falses[i] > 0 /\ consPc[i] = "wait"))
  /\ (\E i \in 1..n : falses[i] > 0) ~> (coPc = "done")

C11_Witness ==
  /\ coPc = "done" /\ n = 2 /\ upLen = 1
  /\ reads[1] = 3 /\ falses[1] = 2 /\ got[1] = <<Elem(1)>>
  /\ reads[2] = 2 /\ falses[2] = 1

\* C12: for every number of consumers, every upstream length and every mix
\* of consumers that never read, stop early or read to the end,
\* MultiConsume returns, with every consumer task ended, provided every
\* runnable task is scheduled and every consumer routine returns.
C12_Terminates ==
  <>(coPc = "done" /\ \A i \in 1..n : consPc[i] = "done")

C12_Witness ==
  /\ coPc = "done" /\ n = 3 /\ upLen = 1
  /\ reads[1] = 0 /\ reads[2] = 1 /\ falses[2] = 0
  /\ reads[3] = 2 /\ falses[3] = 1

\* C13: upstream Next is never called again after it returned false; a
\* consumer has received false only if upstream has reported exhaustion;
\* and if some consumer received false then upstream is exhausted when
\* MultiConsume returns.
C13_UpstreamReportedEnd == nextCalls = Len(pulled) + 1

C13_StopsAtExhaustion ==
  /\ nextCalls <= Len(pulled) + 1
  /\ C13_UpstreamReportedEnd => upPos = upLen
  /\ \A i \in 1..n : falses[i] > 0 => C13_UpstreamReportedEnd
  /\ (coPc = "send" /\ ~coVal) => C13_UpstreamReportedEnd
  /\ (coPc = "done" /\ \E i \in 1..n : falses[i] > 0) => upPos = upLen

C13_Witness ==
  /\ coPc = "done" /\ n = 2 /\ upLen = 2 /\ upPos = 2 /\ nextCalls = 3
  /\ falses[1] = 1 /\ reads[2] = 1
\* number of elements delivered to consumer i (reads answered with true)
Delivered(i) == Len(got[i]) + (IF consPc[i] = "got" THEN 1 ELSE 0)

\* stream i has been made and its completion sentinel has not been received
StillActive(i) == sPtrCh[i] = "chan"

\* C15: upstream is pulled only when every still-active consumer has been
\* handed every element pulled so far and has issued its next read (the
\* others have completed); and at any time the numbers of elements
\* delivered to two still-active consumers differ by at most one.
C15_Backpressure ==
  /\ [](\A i \in 1..n : \A j \in 1..n :
          (StillActive(i) /\ StillActive(j))
             => Delivered(i) - Delivered(j) \in {0 - 1, 0, 1})
  /\ [](\A i \in 1..n :
          /\ Delivered(i) <= Len(pulled)
          /\ StillActive(i) => Delivered(i) >= Len(pulled) - 1)
  /\ [][Len(pulled') > Len(pulled) =>
          \A i \in 1..n :
             IF StillActive(i)
             THEN consPc[i] = "wait" /\ Delivered(i) = Len(pulled)
             ELSE consPc[i] = "done"]_vars

C15_Witness ==
  /\ n = 3 /\ Len(pulled) = 2 /\ coPc = "round" /\ coI = 3
  /\ StillActive(1) /\ Delivered(1) = 2 /\ consPc[1] = "wait"
  /\ ~StillActive(2) /\ Delivered(2) = 1
  /\ StillActive(3) /\ Delivered(3) = 1

\* C17: the shared value and a consumer's destination change only while
\* every consumer that owns an open stream, respectively that consumer, is
\* blocked in splitStream.Next awaiting its reply; while a consumer reads
\* its destination the coordinator is blocked waiting for that consumer,
\* and the value it reads is the element of the round being delivered.
C17_OwnershipTransfer ==
  /\ [](\A i \in 1..n :
          /\ consPc[i] \in {"user", "got"} => (coPc = "recv" /\ coI = i)
          /\ consPc[i] = "got" =>
                (dest[i] = slotVal /\ dest[i] = pulled[Len(pulled)]))
  /\ [][/\ \A i \in 1..n :
             (dest'[i] # dest[i] \/ copies'[i] # copies[i])
                => (consPc[i] = "wait" /\ coI = i /\ dest'[i] = slotVal)
        /\ (slotVal' # slotVal \/ pulled' # pulled)
             => \A i \in 1..n : consPc[i] \in {"wait", "done"}]_vars

C17_Witness ==
  /\ n = 2 /\ consPc[2] = "got" /\ dest[2] = Elem(2) /\ copies[2] = 2
  /\ consPc[1] = "wait" /\ dest[1] = Elem(2) /\ got[1] = <<Elem(1), Elem(2)>>

\* number of rounds whose turn of stream i is over: every pulled element,
\* less the one of the round in progress while stream i still waits its turn
RoundsServed(i) ==
  Len(pulled) -
    (IF /\ coPhase = "round" /\ coPc \in {"round", "send", "recv"}
        /\ (coI < i \/ (coI = i /\ coPc = "round"))
     THEN 1 ELSE 0)

\* C21: a copier call is made only by the round loop, for the stream whose
\* turn it is, while that stream's consumer has a pending read, and it
\* stores the shared value in that consumer's destination and nowhere else;
\* a consumer with a pending read has had one copy per round served, no
\* consumer has had more, and no copy is made for a completed consumer.
C21_CopierOncePerActiveConsumer ==
  /\ [](\A i \in 1..n :
          /\ copies[i] <= RoundsServed(i)
          /\ consPc[i] = "wait" => copies[i] = RoundsServed(i))
  /\ [][\A i \in 1..n :
          /\ copies'[i] \in {copies[i], copies[i] + 1}
          /\ copies'[i] # copies[i] =>
               /\ coPc = "round" /\ coI = i /\ consPc[i] = "wait"
               /\ sPtr[i] = i /\ dest'[i] = slotVal
               /\ \A j \in 1..n : j # i =>
                     (dest'[j] = dest[j] /\ copies'[j] = copies[j])
          /\ (coPc = "round" /\ coI = i /\ consPc[i] = "wait")
               => copies'[i] = copies[i] + 1
          /\ consPc[i] = "done" =>
               (copies'[i] = copies[i] /\ dest'[i] = dest[i])]_vars

C21_Witness ==
  /\ n = 3 /\ coPc = "test" /\ Len(pulled) = 2
  /\ consPc[1] = "done" /\ copies[1] = 0
  /\ consPc[2] = "done" /\ copies[2] = 1
  /\ consPc[3] = "wait" /\ copies[3] = 2

\* consumer i's routine is executing user code
Running(i) == consPc[i] \in {"user", "got"}

\* C28: while consumer i runs the coordinator is blocked in the receive of
\* cleanupIfDone on stream i (so it neither pulls nor copies), every other
\* consumer is blocked awaiting a reply, has finished or is not started;
\* and consumer i+1 is started only after consumer i issued a read or
\* returned.
C28_OneConsumerRuns ==
  /\ [](\A i \in 1..n :
          /\ Running(i) =>
               /\ coPc = "recv" /\ coI = i
               /\ \A j \in 1..n : j # i =>
                     consPc[j] \in {"wait", "done", "unstarted"}
          /\ (i < n /\ consPc[i + 1] # "unstarted") =>
               (reads[i] >= 1 \/ consPc[i] = "done"))
  /\ [][(slotVal' # slotVal \/ nextCalls' # nextCalls \/ dest' # dest)
          => \A i \in 1..n : ~Running(i)]_vars

C28_Witness ==
  /\ n = 3 /\ Running(2) /\ Len(got[2]) = 1 /\ coPhase = "round"
  /\ consPc[1] = "wait" /\ consPc[3] = "wait" /\ Len(pulled) = 2

\* what the k-th read of any consumer is answered with: the k-th upstream
\* element while upstream has one, false afterwards
RECURSIVE Upstream(_)
Upstream(k) == IF k = 0 THEN <<>> ELSE Append(Upstream(k - 1), Elem(k))

Min(a, b) == IF a < b THEN a ELSE b

\* number of reads of consumer i that have been answered and taken
Answered(i) == Len(got[i]) + falses[i]

\* C29: whatever the interleaving, the k-th read of every consumer is
\* answered with the k-th upstream element if upstream has one and with
\* false otherwise, so what a consumer sees, hence what a deterministic
\* consumer does, depends on upstream alone; within a round consumers are
\* served in registration order (an earlier consumer never lags a later
\* one, a later one lags by at most the round in progress); and when
\* MultiConsume has returned the number of upstream pulls is fixed by the
\* upstream length and the numbers of reads the consumers issued.
C29_ScheduleIndependent ==
  /\ \A i \in 1..n :
       /\ got[i] = Upstream(Min(Answered(i), upLen))
       /\ falses[i] = Answered(i) - Min(Answered(i), upLen)
       /\ Answered(i) \in {reads[i], reads[i] - 1}
       /\ consPc[i] \in {"user", "sentinel", "done"} => Answered(i) = reads[i]
  /\ \A i \in 1..n : \A j \in 1..n :
       (i < j /\ consPc[i] # "done" /\ consPc[j] # "done") =>
          Len(got[j]) \in {Len(got[i]), Len(got[i]) - 1}
  /\ coPc = "done" =>
       /\ pulled = Upstream(Min(MaxReadsUpTo(n), upLen))
       /\ nextCalls = Min(MaxReadsUpTo(n), upLen + 1)

C29_Witness ==
  /\ coPc = "done" /\ n = 3 /\ upLen = 2 /\ nextCalls = 3
  /\ reads[1] = 1 /\ reads[2] = 3 /\ reads[3] = 2
  /\ got[2] = <<Elem(1), Elem(2)>> /\ falses[2] = 1 /\ falses[3] = 0

\* C30: the channels of a stream are closed at most once, exactly when the
\* coordinator has received the completion sentinel of its consumer task
\* (after which the task does nothing more); the coordinator sends to or
\* receives from open streams only, a consumer task operates on open
\* channels only, and a closed stream stays closed.
C30_ClosedOnceAfterSentinel ==
  /\ [](\A i \in 1..n :
          /\ sCloses[i] <= 1
          /\ (sCloses[i] = 1) = (consPc[i] = "done")
          /\ (sPtrCh[i] = "nil") = (consPc[i] = "done")
          /\ (sNextReturnCh[i] = "nil") = (sPtrCh[i] = "nil")
          /\ consPc[i] \in {"send", "wait", "sentinel"} => sPtrCh[i] = "chan")
  /\ []((coPc \in {"send", "recv"} /\ coI \in 1..n) => sPtrCh[coI] = "chan")
  /\ [][\A i \in 1..n :
          /\ sCloses'[i] # sCloses[i] =>
               (consPc[i] = "sentinel" /\ coPc = "recv" /\ coI = i)
          /\ sPtrCh[i] = "nil" =>
               /\ sPtrCh'[i] = "nil" /\ sNextReturnCh'[i] = "nil"
               /\ consPc'[i] = "done" /\ sCloses'[i] = 1]_vars

C30_Witness ==
  /\ n = 2 /\ coPc = "send" /\ coI = 2 /\ coPhase = "round"
  /\ sCloses[1] = 1 /\ consPc[1] = "done" /\ Len(got[1]) = 1
  /\ Len(pulled) = 2

(* ======================= odqueue: properties =========================== *)

\* the elements added after the first k
AddedAfter(k) == SubSeq(qAdded, k + 1, Len(qAdded))

\* C23: whatever the interleaving of Add calls and of the clients' steps,
\* the values a client has read since it captured End() (or since its last
\* traversal ended), when k elements had been added, are the first of the
\* elements added after the k-th, in the order added; and when the client
\* finds IsEnd it has read all of them, wherever the other clients stand.
C23_SeesExactlyLaterAdds ==
  \A c \in Clients :
     cur[c] # Nil =>
        /\ IsPrefix(result[c], AddedAfter(base[c]))
        /\ IsEnd(cur[c]) => result[c] = AddedAfter(base[c])

C23_Witness ==
  /\ runs[1] = 1 /\ base[1] = 1 /\ Len(qAdded) = 2
  /\ IsEnd(cur[1]) /\ result[1] = <<qAdded[2]>>
  /\ cur[2] # Nil /\ base[2] = 0 /\ result[2] = <<qAdded[1]>>

\* C24: among the allocated elements exactly one is an end element, the
\* one End() returns, and Next on it returns it; an end element stays one
\* until the next Add, stops being one at that Add, and an element that is
\* not an end element never becomes one.
C24_ExactlyOneEnd ==
  /\ []({e \in 1..qAlloc : IsEnd(e)} = {End})
  /\ [](IsEnd(End) /\ ElementNext(End) = End)
  /\ [][\A e \in 1..qAlloc :
          /\ ~IsEnd(e) => qNext'[e] # e
          /\ (IsEnd(e) /\ qAdded' # qAdded) => qNext'[e] # e
          /\ (IsEnd(e) /\ qAdded' = qAdded) => qNext'[e] = e]_vars

C24_Witness ==
  /\ qAlloc = 3 /\ End = 3 /\ cur[1] = 2 /\ cur[2] = 3 /\ ~IsEnd(cur[1])
  /\ qAdded[1] # qAdded[2]

(* ======================= Slice: properties ============================= *)

\* the elements of the upstream Stream at the 0-based indexes lo .. hi-1
Window(lo, hi) ==
  [j \in 1..(IF hi > lo THEN hi - lo ELSE 0) |-> Elem(lo + j)]

\* C25: with end >= 0 the values Slice has emitted are the first of the
\* upstream elements at indexes [start, end) (as far as upstream has them),
\* all of them once Next has returned false; at most end elements are ever
\* pulled from upstream; and after Next returned false every further Next
\* returns false, emits nothing and pulls nothing.
C25_SliceWindow ==
  /\ [](slEnd >= 0 =>
          /\ IsPrefix(slOut, Window(slStart, Min(slEnd, slLen)))
          /\ slRet = "false" => slOut = Window(slStart, Min(slEnd, slLen))
          /\ slPos <= slEnd /\ slPos = slIndex
          /\ slCalls > slPos => slPos = slLen)
  /\ [][(slEnd >= 0 /\ slRet = "false") =>
          (slRet' = "false" /\ slOut' = slOut /\ slPos' = slPos)]_vars

C25_Witness ==
  /\ slStart = 1 /\ slEnd = 2 /\ slLen = 3 /\ slPos = 2
  /\ slOut = <<Elem(2)>> /\ slRet = "false" /\ slNexts = 4 /\ slCalls = 2

(* ======================= Join: properties ============================== *)

\* C26: in the first Next call that finds an input exhausted, the inputs
\* before it are pulled once, the exhausted input is asked once and the
\* inputs after it are not asked; from then on every Next returns false
\* and asks no input.
C26_JoinStopsForGood ==
  [][/\ (jRet # "false" /\ jRet' = "false" /\ jN > 0) =>
          \E x \in 1..jN :
             /\ jPos[x] = jLen[x] /\ jPos'[x] = jPos[x]
             /\ jCalls'[x] = jCalls[x] + 1
             /\ \A i \in 1..jN :
                  /\ i < x => (jPos'[i] = jPos[i] + 1
                                 /\ jCalls'[i] = jCalls[i] + 1)
                  /\ i > x => (jPos'[i] = jPos[i]
                                 /\ jCalls'[i] = jCalls[i])
     /\ jRet = "false" =>
          (jRet' = "false" /\ jPos' = jPos /\ jCalls' = jCalls
             /\ jOut' = jOut)]_vars

C26_Witness ==
  /\ jN = 3 /\ jLen[1] = 2 /\ jLen[2] = 1 /\ jLen[3] = 3
  /\ jRet = "false" /\ jNexts = 4 /\ Len(jOut) = 1
  /\ jPos[1] = 2 /\ jCalls[2] = 2 /\ jCalls[3] = 1

(* ======================= GroupBy: properties =========================== *)

RECURSIVE RunsOf(_)
\* the maximal runs of equal keys among the first k upstream elements
RunsOf(k) ==
  IF k = 0 THEN <<>>
  ELSE LET r == RunsOf(k - 1) IN
         IF k > 1 /\ gbUp[k] = gbUp[k - 1]
         THEN [r EXCEPT ![Len(r)] = Append(@, GbElem(k))]
         ELSE Append(r, <<GbElem(k)>>)

Runs == RunsOf(Len(gbUp))

RunKeys == [j \in 1..Len(Runs) |-> KeyOf(Runs[j][1])]

\* C27: however the caller mixes Next calls on the GroupBy stream and on
\* the Group it holds, the keys of the Groups emitted are the first of the
\* keys of the maximal runs, in order, and all of them once the GroupBy
\* stream has returned false; Key() of the Group held is its run's key; the
\* values a Group has emitted are the first elements of its run, and all
\* of them once its Next has returned false.
C27_GroupPerRun ==
  /\ IsPrefix(gbKeys, RunKeys)
  /\ gbRet = "false" => gbKeys = RunKeys
  /\ gbRet = "true" => gbKey = gbKeys[Len(gbKeys)]
  /\ Len(gbElems) = Len(gbKeys)
  /\ \A j \in 1..Len(gbElems) : IsPrefix(gbElems[j], Runs[j])
  /\ (gbRet = "true" /\ grRet = "false")
        => gbElems[Len(gbElems)] = Runs[Len(gbElems)]

C27_Witness ==
  /\ gbUp = <<1, 1, 2>> /\ gbRet = "false" /\ gbKeys = <<1, 2>>
  /\ gbElems = << <<GbElem(1)>>, <<GbElem(3)>> >>

(* ======================= StreamToGenerator: properties ================= *)

\* a Close call has handed nil to the producer of g
C22_CloseReachedG == \E j \in 1..Len(handed) : handed[j] = Nil

\* C22 as stated: with c = g, a Next on g that follows a Close of the
\* wrapper returns false.
C22_NextFalseAfterClose ==
  (sgCloser = "g" /\ C22_CloseReachedG /\ callerPc = "idle"
     /\ callerOp = "Next") => ret = "false"

\* C22 as amended: the wrapper's Next is the Next of s, so what it yields
\* is what g yields; the wrapper's Close closes c and nothing else: with c
\* another Closer each Close closes c once and never reaches g, with c = g
\* it is g's Close; and with c = g and a producer that returns when handed
\* nil, once a Close has returned g is closed, its producer has ended and
\* every later Next on g returns false.
C22_WrapperDelegates ==
  /\ [](/\ IsPrefix(yielded, committed)
        /\ sgCloser = "g" => cCloses = 0
        /\ sgCloser = "c" => ~C22_CloseReachedG
        /\ (sgCloser = "g" /\ obeysNil /\ callerPc = "idle"
              /\ (callerOp = "Close" \/ C22_CloseReachedG))
             => (gPtrCh = "nil" /\ prodPc = "exited")
        /\ (sgCloser = "g" /\ obeysNil /\ C22_CloseReachedG
              /\ callerPc = "idle" /\ callerOp = "Next") => ret = "false")
  /\ [][/\ (callerOp' = "Close" /\ calls' # calls) =>
             IF sgCloser = "c"
             THEN /\ cCloses' = cCloses + 1 /\ ret' = "nil"
                  /\ callerPc' = "idle"
                  /\ UNCHANGED <<gPtrCh, gDoneCh, prodPc, handed, chOps>>
             ELSE /\ cCloses' = cCloses
                  /\ gPtrCh = "chan" => (callerPc' = "send" /\ callerArg' = Nil)
        /\ cCloses' # cCloses => (callerOp' = "Close" /\ calls' # calls)]_vars

C22_Witness ==
  /\ sgCloser = "g" /\ obeysNil /\ callerPc = "idle" /\ callerOp = "Next"
  /\ ret = "false" /\ calls = 3 /\ Len(yielded) = 1
  /\ handed = <<1, Nil>> /\ finished

(* =================== Generator: properties (continued) ================== *)

\* C32: the i-th value EmitPtr returns to the producer is the argument of
\* the caller's i-th Next/Close call (nil for Close), in call order; the
\* producer receives it only while blocked in EmitPtr after announcing "not
\* finished"; and the producer stores only through the slot of the call
\* that is currently waiting, i.e. into the storage passed to that Next.
C32_SlotsInCallOrder ==
  /\ [](/\ received = handed
        /\ gPtrCh # "nil"
             => Len(received) = calls - (IF callerPc = "send" THEN 1 ELSE 0))
  /\ [][/\ received' # received =>
             /\ received' = Append(received, callerArg)
             /\ Len(received') = calls
             /\ callerOp \in {"Next", "Close"} /\ callerPc = "send"
             /\ (callerOp = "Close") = (callerArg = Nil)
             /\ prodPc = "emit_recv" /\ EmitCalls = Len(received) + 1
             /\ slot' = callerArg
        /\ mem' # mem =>
             /\ prodPc = "user" /\ callerPc = "recv" /\ callerOp = "Next"
             /\ slot = callerArg /\ slot = received[Len(received)]
             /\ Len(received) = calls
             /\ \A p \in Ptrs : p # slot => mem'[p] = mem[p]]_vars

C32_Witness ==
  /\ received = <<2, 1, Nil>> /\ calls = 3 /\ prodPc = "user"
  /\ callerOp = "Close" /\ Len(yielded) = 2

\* C33: a producer that is handed the nil of a Close and calls EmitPtr again
\* makes that Close return nil with both channels open and unclosed; while
\* the caller then stays outside a call the producer is blocked in EmitPtr's
\* receive; and the next Next does not find the Generator closed: it goes on
\* to hand its destination to the producer.
C33_IgnoredCloseLeavesOpen ==
  /\ []((callerPc = "idle" /\ callerOp = "Close" /\ gPtrCh # "nil")
          => /\ ~obeysNil /\ prodPc = "emit_recv" /\ ret = "nil"
             /\ received # <<>> /\ received[Len(received)] = Nil
             /\ gDoneCh = "chan" /\ ptrChCloses = 0 /\ doneChCloses = 0)
  /\ [][/\ (prodPc = "user" /\ received # <<>> /\ slot = Nil
              /\ prodPc' = "emit_send")
             => (~obeysNil /\ callerOp = "Close" /\ callerPc = "recv")
        /\ (callerOp = "Close" /\ callerPc = "recv" /\ prodPc = "emit_send"
              /\ prodPc' # prodPc)
             => /\ callerPc' = "idle" /\ ret' = "nil" /\ prodPc' = "emit_recv"
                /\ gPtrCh' = "chan" /\ gDoneCh' = "chan"
                /\ ptrChCloses' = 0 /\ doneChCloses' = 0
        /\ (callerPc = "idle" /\ callerOp = "Close" /\ gPtrCh # "nil"
              /\ calls' # calls /\ callerOp' = "Next")
             => (callerPc' = "send" /\ ret' = ret /\ callerArg' \in Ptrs)
        /\ (callerOp = "Next" /\ callerPc = "send" /\ callerPc' # "send")
             => (prodPc' = "user" /\ slot' = callerArg
                   /\ received' = Append(received, callerArg))]_vars

\* A Next after the ignored Close has handed its destination and returned
\* true with the value the producer stored there.
C33_Witness ==
  /\ ~obeysNil /\ received = <<1, Nil, 2>> /\ callerOp = "Next"
  /\ callerPc = "idle" /\ ret = "true" /\ Len(yielded) = 2
  /\ gPtrCh = "chan" /\ prodPc = "emit_recv"

\* C34: NewGenerator returns only in a step in which the producer completes
\* its first announcement (its first EmitPtr call, or its return); until
\* then the caller waits and has nothing in hand, so all producer code that
\* precedes the first EmitPtr has run when NewGenerator returns; from that
\* return until the first Next/Close call the producer is blocked in EmitPtr
\* or has ended and nothing of the Generator changes; and NewGenerator
\* leaves its wait by no step other than a producer announcement.
C34_NewGeneratorWaitsForProducer ==
  /\ []((callerOp = "New" /\ callerPc = "idle")
          => /\ calls = 0 /\ ret = "g" /\ received = <<>>
             /\ prodPc \in {"emit_recv", "exited"}
             /\ (prodPc = "exited") = (gPtrCh = "nil")
             /\ (prodPc = "exited") = finished)
  /\ []((callerOp = "New" /\ prodPc \in {"user", "emit_send", "done_send"})
          => (callerPc = "recv" /\ ret = "none"))
  /\ [][/\ (callerOp = "New" /\ callerPc = "recv" /\ callerPc' # "recv")
             => /\ prodPc \in {"emit_send", "done_send"}
                /\ prodPc' \in {"emit_recv", "exited"}
                /\ callerPc' = "idle" /\ ret' = "g"
        /\ (callerOp = "New" /\ callerPc = "recv" /\ prodPc' = prodPc)
             => (callerPc' = "recv" /\ ret' = "none")
        /\ (callerOp = "New" /\ callerPc = "idle" /\ calls' = calls)
             => UNCHANGED genVars]_vars

C34_Witness ==
  /\ callerOp = "New" /\ callerPc = "idle" /\ ret = "g" /\ calls = 0
  /\ prodPc = "emit_recv" /\ gPtrCh = "chan" /\ ~finished

\* C31: with a producer that returns once handed nil, that goes on to its
\* next EmitPtr call or its return, and with every ready channel operation
\* completing, every call in progress (NewGenerator, Next or Close, in any
\* order the single caller chooses) eventually returns; no call ends in a
\* panic.
C31_EveryCallReturns ==
  /\ [](callerPc # "panic")
  /\ (obeysNil /\ callerPc # "idle") ~> (callerPc = "idle")

C31_Witness ==
  /\ obeysNil /\ callerPc = "idle" /\ calls = 3 /\ handed = <<1, Nil>>
  /\ callerOp = "Next" /\ ret = "false" /\ gPtrCh = "nil"
=============================================================================
